---------------------------- MODULE Spec2Model ----------------------------
(***************************************************************************)
(* A model of casein's retained node tree (src/src/lib.rs): template       *)
(* application (Elem::apply / ElemList::apply_all through a Cursor), input *)
(* routing (Node::input), drawing (Node::render) and the Receiver/Sender   *)
(* event channel.                                                          *)
(*                                                                         *)
(* f32 values are modelled by integers; std::f32::INFINITY is the integer  *)
(* INF, and FSub saturates the way IEEE subtraction does on it.  No NaN    *)
(* arises: the only subtraction with an infinite operand has a finite      *)
(* left-hand or right-hand side.                                           *)
(*                                                                         *)
(* A tag is the address of the `static ID` of one id!() call site.  A      *)
(* static in a generic impl is one item for all instantiations, so there   *)
(* is one tag per element type; it is modelled by the type's name.         *)
(***************************************************************************)
EXTENDS Integers, Sequences, FiniteSets, TLC

VARIABLES
    root,       \* the retained tree (`root` of backends/glutin.rs run)
    prev,       \* history: root before the last operation
    last,       \* history: the last operation and its arguments
    reached,    \* history: paths whose node passed its gate in the last input, in order
    fired,      \* history: handler invocations of the last input, in order
    cur,        \* the Cursor an element author holds on root's children, if any
    frame,      \* number of stamped applies so far (stamps handler instances)
    gone,       \* history: handler instances dropped with a truncated child
    queue,      \* channel: the Rc<Cell<Vec<T>>> shared by a Receiver and its Senders
    senders,    \* channel: number of live Sender handles
    iters,      \* channel: remaining items of each iterator returned by poll
    polled,     \* channel history: what each poll returned, in poll order
    yielded,    \* channel history: what each iterator has yielded so far
    sent,       \* channel history: every value sent, in send order
    sentAt      \* channel history: number of polls issued before each send

vars == <<root, prev, last, reached, fired, cur, frame, gone,
          queue, senders, iters, polled, yielded, sent, sentAt>>
treeVars == <<root, prev, last, reached, fired, cur, frame, gone>>
chanVars == <<queue, senders, iters, polled, yielded, sent, sentAt>>

---------------------------------------------------------------------------
(* Bounds of the model *)

MaxKids == 2        \* longest child list of a Row / Col template
MaxQueue == 2       \* most scroll deltas pending in one Scrollable's channel
MaxFrames == 3      \* most stamped applies (SpecPrune)
MaxSends == 3       \* most values sent through the channel (SpecChan)
MaxSenders == 2     \* most Sender handles (SpecChan)
MaxSlots == 2       \* most child slots one Cursor hands out (SpecCursor)
MaxPolls == 2       \* most polls of the Receiver (SpecChan)

---------------------------------------------------------------------------
(* f32 *)

INF == 1000000

FSub(a, b) == IF a >= INF THEN INF ELSE IF b >= INF THEN 0 - INF ELSE a - b

\* faulty variant: the running maximum is never raised
FMax_first(a, b) == a

FMax(a, b) == IF a >= b THEN a ELSE b

FMin(a, b) == IF a <= b THEN a ELSE b

Bounds(w, h) == [width |-> w, height |-> h]

---------------------------------------------------------------------------
(* Node *)

NoHandler == [kind |-> "None"]

DefaultHandlers ==
    [on_mouse_move |-> NoHandler, on_mouse_down |-> NoHandler,
     on_mouse_up |-> NoHandler, on_scroll |-> NoHandler,
     on_key_down |-> NoHandler, on_key_up |-> NoHandler, on_char |-> NoHandler]

Unit == [type |-> "unit"]

ShapeEmpty == [kind |-> "Empty"]

with_tag(t) ==
    [tag |-> t, offset |-> <<0, 0>>, size |-> <<0, 0>>, shape |-> ShapeEmpty,
     children |-> <<>>, hover |-> FALSE, dragging |-> FALSE,
     handlers |-> DefaultHandlers, state |-> Unit]

NodeNew == with_tag("Node")

\* faulty variant: the tag comparison lost, every apply rebuilds the node
tag_always_reset(node, t) == with_tag(t)

\* faulty variant: a node of another identity is reset but keeps its children
tag_keep_children(node, t) ==
    IF t = node.tag THEN node ELSE [with_tag(t) EXCEPT !.children = node.children]

tag(node, t) == IF t = node.tag THEN node ELSE with_tag(t)

set_shape(node, shape) == [node EXCEPT !.shape = shape]

set_size(node, w, h) == [node EXCEPT !.size = <<w, h>>]

\* faulty variant: the offset is moved by (x, y) instead of set to it
set_offset_by(node, x, y) ==
    [node EXCEPT !.offset = <<node.offset[1] + x, node.offset[2] + y>>]

set_offset(node, x, y) == [node EXCEPT !.offset = <<x, y>>]

on_mouse_move(node, f) == [node EXCEPT !.handlers.on_mouse_move = f]

on_mouse_down(node, f) == [node EXCEPT !.handlers.on_mouse_down = f]

\* faulty variant: the closure is dropped instead of stored
on_mouse_up_dropped(node, f) == node

on_mouse_up(node, f) == [node EXCEPT !.handlers.on_mouse_up = f]

on_scroll(node, f) == [node EXCEPT !.handlers.on_scroll = f]

on_key_down(node, f) == [node EXCEPT !.handlers.on_key_down = f]

on_key_up(node, f) == [node EXCEPT !.handlers.on_key_up = f]

on_char(node, f) == [node EXCEPT !.handlers.on_char = f]

---------------------------------------------------------------------------
(* Receiver / Sender.  A queue value is the content of the shared cell. *)

ReceiverNew == <<>>

\* faulty variant: the value is pushed on a new vector, not on the one taken out
send_overwrite(q, value) == <<value>>

\* Sender::send: swap the vector out, push, put it back.
send(q, value) == Append(q, value)

\* faulty variant: poll copies the vector and leaves it in the cell
poll_keep(q) == [cell |-> q, iter |-> q]

\* Receiver::poll: the cell is left holding a new empty vector, the iterator
\* owns the vector that was swapped out.
poll(q) == [cell |-> <<>>, iter |-> q]

---------------------------------------------------------------------------
(* Cursor *)

\* no Cursor is alive
NoCursor == [index |-> -1]

\* faulty variant: the cursor starts past the first child
edit_children_past(node) == [node |-> node, index |-> 1, ok |-> TRUE]

edit_children(node) == [node |-> node, index |-> 0, ok |-> TRUE]

\* faulty variant: every slot handed out is a new empty node
add_fresh(cursor) ==
    LET len == Len(cursor.node.children)
        node1 == IF cursor.index >= len
                 THEN [cursor.node EXCEPT !.children = Append(@, NodeNew)]
                 ELSE [cursor.node EXCEPT !.children[cursor.index + 1] = NodeNew]
    IN  [node |-> node1, index |-> cursor.index + 1,
         ok |-> cursor.ok /\ cursor.index <= len]

\* Cursor::add; `ok` is the assertion of its first line.
add(cursor) ==
    LET len == Len(cursor.node.children)
        node1 == IF cursor.index = len
                 THEN [cursor.node EXCEPT !.children = Append(@, NodeNew)]
                 ELSE cursor.node
    IN  [node |-> node1, index |-> cursor.index + 1,
         ok |-> cursor.ok /\ cursor.index <= len]

\* the slot the last add returned, and writing through that reference
slot(cursor) == cursor.node.children[cursor.index]

put(cursor, child) == [cursor EXCEPT !.node.children[cursor.index] = child]

\* Drop for Cursor
drop(cursor) ==
    [cursor.node EXCEPT !.children = SubSeq(@, 1, FMin(cursor.index, Len(@)))]

---------------------------------------------------------------------------
(* Templates.  An element is a record with its struct's fields; an element *)
(* list is (), a tuple of elements, a Chain of two lists, or one element.  *)

Empty == [type |-> "Empty"]

Text(t) == [type |-> "Text", text |-> t]

Padding(p, c) == [type |-> "Padding", padding |-> p, child |-> c]

BackgroundColor(col, c) == [type |-> "BackgroundColor", color |-> col, child |-> c]

Row(s, list) == [type |-> "Row", spacing |-> s, children |-> list]

Col(s, list) == [type |-> "Col", spacing |-> s, children |-> list]

Button(c, f) == [type |-> "Button", child |-> c, on_click |-> f]

Scrollable(c) == [type |-> "Scrollable", child |-> c]

UnitList == [type |-> "()"]

Tuple(es) == [type |-> "tuple", elems |-> es]

Chain(a, b) == [type |-> "chain", a |-> a, b |-> b]

\* font.measure(text, size) of the text measurement service
measure(t) == IF t = "a" THEN <<2, 2>> ELSE <<4, 3>>

\* font.layout(text, size): the glyph run, opaque
layout(t) == <<"glyphs", t>>

ButtonPadding == 5

\* faulty variant: hover is looked at before dragging
button_color_hover_first(node) ==
    IF node.hover THEN "hovered" ELSE IF node.dragging THEN "pressed" ELSE "idle"

\* the colour Button::apply picks from the node's interaction flags
button_color(node) ==
    IF node.dragging THEN "pressed" ELSE IF node.hover THEN "hovered" ELSE "idle"

\* the closure Button::apply installs: calls on_click for the left button
click_handler(f, stamp) == [kind |-> "click", on_click |-> f, stamp |-> stamp]

\* the closure Scrollable::apply installs: sends dy through tx
scroll_handler(stamp) == [kind |-> "tx", stamp |-> stamp]

ScrollStateDefault == [type |-> "ScrollState", offset |-> 0, rx |-> ReceiverNew]

\* Node::state::<ScrollState>
state(node, default) ==
    IF node.state.type # default.type THEN [node EXCEPT !.state = default] ELSE node

\* `self.state.downcast_mut::<T>()` is Some: the slot holds a T
downcast(node, T) == node.state.type = T

\* one step of the loop over rx.poll() in Scrollable::apply
scroll_step(offset, dy, height, bounds) ==
    FMax(FMin(offset - dy, FSub(height, bounds.height)), 0)

\* faulty variant: the deltas are consumed newest first
RECURSIVE scroll_loop_newest_first(_, _, _, _)
scroll_loop_newest_first(offset, iter, height, bounds) ==
    IF iter = <<>> THEN offset
    ELSE scroll_loop_newest_first(
             scroll_step(offset, iter[Len(iter)], height, bounds),
             SubSeq(iter, 1, Len(iter) - 1), height, bounds)

RECURSIVE scroll_loop(_, _, _, _)
scroll_loop(offset, iter, height, bounds) ==
    IF iter = <<>> THEN offset
    ELSE scroll_loop(scroll_step(offset, Head(iter), height, bounds),
                     Tail(iter), height, bounds)

\* the placement loop of Row::apply: offsets (x, 0), x advancing by width + spacing
RECURSIVE row_place(_, _, _, _, _)
row_place(children, i, x, height, spacing) ==
    IF i > Len(children) THEN [children |-> children, x |-> x, height |-> height]
    ELSE row_place([children EXCEPT ![i] = set_offset(@, x, 0)], i + 1,
                   x + children[i].size[1] + spacing,
                   FMax(height, children[i].size[2]), spacing)

\* the placement loop of Col::apply
RECURSIVE col_place(_, _, _, _, _)
col_place(children, i, y, width, spacing) ==
    IF i > Len(children) THEN [children |-> children, y |-> y, width |-> width]
    ELSE col_place([children EXCEPT ![i] = set_offset(@, 0, y)], i + 1,
                   y + children[i].size[2] + spacing,
                   FMax(width, children[i].size[1]), spacing)

RECURSIVE apply(_, _, _, _)
RECURSIVE apply_all(_, _, _, _)

\* `self.child.apply(node.edit_children().add(), bounds)`: the temporary
\* cursor is dropped at the end of the statement
apply_child(child, node, bounds, stamp) ==
    LET c == add(edit_children(node))
    IN  drop(put(c, apply(child, slot(c), bounds, stamp)))

apply_Empty(e, node, bounds, stamp) == node

apply_Text(e, node, bounds, stamp) ==
    LET n1 == tag(node, "Text")
        n2 == set_shape(n1, [kind |-> "Text", position |-> <<0, 0>>,
                             glyphs |-> layout(e.text), color |-> "white"])
        m == measure(e.text)
    IN  set_size(n2, m[1], m[2])

\* faulty variant: the child gets the parent's constraint, not the shrunk one
apply_Padding_unshrunk(e, node, bounds, stamp) ==
    LET n1 == tag(node, "Padding")
        n2 == apply_child(e.child, n1, bounds, stamp)
        n3 == [n2 EXCEPT !.children[1] = set_offset(@, e.padding, e.padding)]
        sz == n3.children[1].size
    IN  set_size(n3, sz[1] + 2 * e.padding, sz[2] + 2 * e.padding)

apply_Padding(e, node, bounds, stamp) ==
    LET n1 == tag(node, "Padding")
        n2 == apply_child(e.child, n1,
                          Bounds(FSub(bounds.width, 2 * e.padding),
                                 FSub(bounds.height, 2 * e.padding)), stamp)
        n3 == [n2 EXCEPT !.children[1] = set_offset(@, e.padding, e.padding)]
        sz == n3.children[1].size
    IN  set_size(n3, sz[1] + 2 * e.padding, sz[2] + 2 * e.padding)

apply_BackgroundColor(e, node, bounds, stamp) ==
    LET n1 == tag(node, "BackgroundColor")
        n2 == apply_child(e.child, n1, bounds, stamp)
        sz == n2.children[1].size
        n3 == set_shape(n2, [kind |-> "Rect", position |-> <<0, 0>>,
                             dimensions |-> sz, color |-> e.color])
    IN  set_size(n3, sz[1], sz[2])

apply_Row(e, node, bounds, stamp) ==
    LET n1 == tag(node, "Row")
        n2 == drop(apply_all(e.children, edit_children(n1),
                             Bounds(INF, bounds.height), stamp))
        r == row_place(n2.children, 1, 0, 0, e.spacing)
        n3 == [n2 EXCEPT !.children = r.children]
    IN  set_size(n3, FMax(r.x - e.spacing, 0), r.height)

apply_Col(e, node, bounds, stamp) ==
    LET n1 == tag(node, "Col")
        n2 == drop(apply_all(e.children, edit_children(n1),
                             Bounds(INF, bounds.height), stamp))
        r == col_place(n2.children, 1, 0, 0, e.spacing)
        n3 == [n2 EXCEPT !.children = r.children]
    IN  set_size(n3, r.width, FMax(r.y - e.spacing, 0))

apply_Button(e, node, bounds, stamp) ==
    LET n1 == tag(node, "Button")
        n2 == on_mouse_up(n1, click_handler(e.on_click, stamp))
        color == button_color(n2)
        n3 == apply_child(BackgroundColor(color, Padding(ButtonPadding, e.child)),
                          n2, bounds, stamp)
        sz == n3.children[1].size
    IN  set_size(n3, sz[1], sz[2])

apply_Scrollable(e, node, bounds, stamp) ==
    LET n1 == tag(node, "Scrollable")
        n2 == apply_child(e.child, n1, Bounds(bounds.width, INF), stamp)
        sz == n2.children[1].size
        n3 == state(n2, ScrollStateDefault)
        p == poll(n3.state.rx)
        offset == scroll_loop(n3.state.offset, p.iter, sz[2], bounds)
        n4 == [n3 EXCEPT !.state.rx = p.cell, !.state.offset = offset]
        n5 == on_scroll(n4, scroll_handler(stamp))
        n6 == [n5 EXCEPT !.children[1] = set_offset(@, 0, 0 - offset)]
    IN  set_size(n6, sz[1], sz[2])

apply(e, node, bounds, stamp) ==
    CASE e.type = "Empty" -> apply_Empty(e, node, bounds, stamp)
      [] e.type = "Text" -> apply_Text(e, node, bounds, stamp)
      [] e.type = "Padding" -> apply_Padding(e, node, bounds, stamp)
      [] e.type = "BackgroundColor" -> apply_BackgroundColor(e, node, bounds, stamp)
      [] e.type = "Row" -> apply_Row(e, node, bounds, stamp)
      [] e.type = "Col" -> apply_Col(e, node, bounds, stamp)
      [] e.type = "Button" -> apply_Button(e, node, bounds, stamp)
      [] e.type = "Scrollable" -> apply_Scrollable(e, node, bounds, stamp)

\* `self.$i.apply(cursor.add(), bounds)` for each member of a tuple, in order
RECURSIVE apply_tuple(_, _, _, _, _)
apply_tuple(elems, i, cursor, bounds, stamp) ==
    IF i > Len(elems) THEN cursor
    ELSE LET c == add(cursor)
         IN  apply_tuple(elems, i + 1,
                         put(c, apply(elems[i], slot(c), bounds, stamp)),
                         bounds, stamp)

\* faulty variant: a Chain applies its second list before its first
apply_all_swapped(l, cursor, bounds, stamp) ==
    CASE l.type = "()" -> cursor
      [] l.type = "tuple" -> apply_tuple(l.elems, 1, cursor, bounds, stamp)
      [] l.type = "chain" ->
            apply_all(l.a, apply_all(l.b, cursor, bounds, stamp), bounds, stamp)
      [] OTHER -> LET c == add(cursor)
                  IN  put(c, apply(l, slot(c), bounds, stamp))

apply_all(l, cursor, bounds, stamp) ==
    CASE l.type = "()" -> cursor
      [] l.type = "tuple" -> apply_tuple(l.elems, 1, cursor, bounds, stamp)
      [] l.type = "chain" ->
            apply_all(l.b, apply_all(l.a, cursor, bounds, stamp), bounds, stamp)
      [] OTHER -> LET c == add(cursor)
                  IN  put(c, apply(l, slot(c), bounds, stamp))

---------------------------------------------------------------------------
(* Input.  An input is a record with the variant's name and payload; the   *)
(* pointer coordinates of the InputState travel with it as `mouse`.        *)

MouseMove == [kind |-> "MouseMove"]

MouseDown(b) == [kind |-> "MouseDown", button |-> b]

MouseUp(b) == [kind |-> "MouseUp", button |-> b]

Scroll(dx, dy) == [kind |-> "Scroll", dx |-> dx, dy |-> dy]

KeyDown(k) == [kind |-> "KeyDown", key |-> k]

KeyUp(k) == [kind |-> "KeyUp", key |-> k]

Char(c) == [kind |-> "Char", char |-> c]

\* faulty variant: the right and bottom edges belong to the rectangle
hit_closed(node, offset, mouse) ==
    /\ mouse[1] >= offset[1] /\ mouse[1] <= offset[1] + node.size[1]
    /\ mouse[2] >= offset[2] /\ mouse[2] <= offset[2] + node.size[2]

\* the hit test of input_inner: `offset` already includes the node's own offset
hit(node, offset, mouse) ==
    /\ mouse[1] >= offset[1] /\ mouse[1] < offset[1] + node.size[1]
    /\ mouse[2] >= offset[2] /\ mouse[2] < offset[2] + node.size[2]

\* faulty variant: a dragging node that is not hovered gets no moves
move_gate_no_capture(node, hover) == node.hover \/ hover

move_gate(node, hover) == node.dragging \/ node.hover \/ hover

\* faulty variant: a press starts a drag on nodes that are not hovered
down_gate_open(node) == TRUE

down_gate(node) == node.hover

\* faulty variant: a release is forwarded by hovered nodes only
up_gate_hover_only(node) == node.hover

up_gate(node) == node.hover \/ node.dragging

\* faulty variant: a scroll is forwarded whatever the flags are
scroll_gate_open(node) == TRUE

scroll_gate(node) == node.hover \/ node.dragging

\* the handler slot an input is delivered to
handler_slot(input) ==
    CASE input.kind = "MouseMove" -> "on_mouse_move"
      [] input.kind = "MouseDown" -> "on_mouse_down"
      [] input.kind = "MouseUp" -> "on_mouse_up"
      [] input.kind = "Scroll" -> "on_scroll"

\* faulty variant: Button's closure calls on_click for every mouse button
invoke_any_button(node, input, path) ==
    LET h == node.handlers[handler_slot(input)]
    IN  IF h.kind = "None" THEN <<>>
        ELSE <<[at |-> path, slot |-> handler_slot(input), handler |-> h]>>
             \o (IF h.kind = "click" /\ input.kind = "MouseUp"
                 THEN <<[at |-> path, slot |-> "on_click", handler |-> h]>>
                 ELSE <<>>)

\* `if let Some(ref f) = self.handlers.<slot> { f(..) }`: the invocations it
\* causes (the closure itself, and on_click when Button's closure calls it)
invoke(node, input, path) ==
    LET h == node.handlers[handler_slot(input)]
    IN  IF h.kind = "None" THEN <<>>
        ELSE <<[at |-> path, slot |-> handler_slot(input), handler |-> h]>>
             \o (IF h.kind = "click" /\ input.kind = "MouseUp" /\ input.button = "Left"
                 THEN <<[at |-> path, slot |-> "on_click", handler |-> h]>>
                 ELSE <<>>)

\* faulty variant: the closure moves the stored offset at once
invoke_effect_offset(node, input) ==
    LET h == node.handlers[handler_slot(input)]
    IN  IF h.kind = "tx" /\ input.kind = "Scroll" /\ node.state.type = "ScrollState"
        THEN [node EXCEPT !.state.offset = @ - input.dy]
        ELSE node

\* the effect of the invoked closure on the channel it captured: the tx of a
\* Scrollable's closure is a handle to the queue of the same node's ScrollState
invoke_effect(node, input) ==
    LET h == node.handlers[handler_slot(input)]
    IN  IF h.kind = "tx" /\ input.kind = "Scroll" /\ node.state.type = "ScrollState"
        THEN [node EXCEPT !.state.rx = send(@, input.dy)]
        ELSE node

\* the steps of one input in the order the code takes them: a passed gate, a
\* handler call, a write of a flag
gate_step(path) == [ev |-> "gate", at |-> path]

call_steps(node, input, path) ==
    [k \in 1..Len(invoke(node, input, path)) |->
        [ev |-> "call", at |-> path, slot |-> invoke(node, input, path)[k].slot]]

write_step(path, flag, value) ==
    [ev |-> "write", at |-> path, flag |-> flag, value |-> value]

RECURSIVE input_inner(_, _, _, _, _)

\* `for child in self.children.iter_mut() { child.input_inner(..) }`
RECURSIVE input_children(_, _, _, _, _, _)
input_children(acc, i, input, mouse, offset, path) ==
    IF i > Len(acc.node.children) THEN acc
    ELSE LET r == input_inner(acc.node.children[i], input, mouse, offset,
                              Append(path, i))
         IN  input_children([node |-> [acc.node EXCEPT !.children[i] = r.node],
                             reached |-> acc.reached \o r.reached,
                             fired |-> acc.fired \o r.fired,
                             log |-> acc.log \o r.log],
                            i + 1, input, mouse, offset, path)

\* faulty variant: the children get the input before the node's own handler
dispatch_children_first(node, input, mouse, offset, path) ==
    LET r == input_children([node |-> invoke_effect(node, input),
                             reached |-> <<path>>,
                             fired |-> <<>>,
                             log |-> <<gate_step(path)>>],
                            1, input, mouse, offset, path)
    IN  [r EXCEPT !.fired = @ \o invoke(node, input, path),
                  !.log = @ \o call_steps(node, input, path)]

\* the body of a passed gate: the node's handler, then its children
dispatch(node, input, mouse, offset, path) ==
    input_children([node |-> invoke_effect(node, input),
                    reached |-> <<path>>,
                    fired |-> invoke(node, input, path),
                    log |-> <<gate_step(path)>> \o call_steps(node, input, path)],
                   1, input, mouse, offset, path)

skip(node) == [node |-> node, reached |-> <<>>, fired |-> <<>>, log |-> <<>>]

\* faulty variant: keys are forwarded to the children like a scroll
key_route_children(node, input, mouse, offset, path) ==
    input_children([node |-> node, reached |-> <<path>>, fired |-> <<>>,
                    log |-> <<gate_step(path)>>],
                   1, input, mouse, offset, path)

\* the arm of KeyDown, KeyUp and Char: an empty block
key_route(node, input, mouse, offset, path) == skip(node)

input_inner(node, input, mouse, offset0, path) ==
    LET offset == <<offset0[1] + node.offset[1], offset0[2] + node.offset[2]>>
    IN  CASE input.kind = "MouseMove" ->
               LET hover == hit(node, offset, mouse)
                   r == IF move_gate(node, hover)
                        THEN dispatch(node, input, mouse, offset, path)
                        ELSE skip(node)
               IN  [r EXCEPT !.node.hover = hover,
                             !.log = Append(@, write_step(path, "hover", hover))]
          [] input.kind = "MouseDown" ->
               IF down_gate(node)
               THEN LET r == dispatch([node EXCEPT !.dragging = TRUE],
                                      input, mouse, offset, path)
                    IN  [r EXCEPT !.log = <<write_step(path, "dragging", TRUE)>> \o @]
               ELSE skip(node)
          [] input.kind = "MouseUp" ->
               LET r == IF up_gate(node)
                        THEN dispatch(node, input, mouse, offset, path)
                        ELSE skip(node)
               IN  [r EXCEPT !.node.dragging = FALSE,
                             !.log = Append(@, write_step(path, "dragging", FALSE))]
          [] input.kind = "Scroll" ->
               IF scroll_gate(node)
               THEN dispatch(node, input, mouse, offset, path)
               ELSE skip(node)
          [] OTHER -> key_route(node, input, mouse, offset, path)

\* Node::input
input(node, i, mouse) == input_inner(node, i, mouse, <<0, 0>>, <<>>)

---------------------------------------------------------------------------
(* Render.  A frame is the sequence of draw calls; `path` tells which node *)
(* a call came from.                                                       *)

RECURSIVE render_inner(_, _, _)

\* `for child in self.children.iter() { child.render_inner(frame, offset) }`
RECURSIVE render_children(_, _, _, _)
render_children(node, i, offset, path) ==
    IF i > Len(node.children) THEN <<>>
    ELSE render_inner(node.children[i], offset, Append(path, i))
         \o render_children(node, i + 1, offset, path)

render_inner(node, offset0, path) ==
    LET offset == <<offset0[1] + node.offset[1], offset0[2] + node.offset[2]>>
        own == IF node.shape.kind = "Empty" THEN <<>>
               ELSE <<[call |-> node.shape.kind,
                       at |-> <<offset[1] + node.shape.position[1],
                                offset[2] + node.shape.position[2]>>,
                       shape |-> node.shape, node |-> path]>>
    IN  own \o render_children(node, 1, offset, path)

\* Node::render
render(node) == render_inner(node, <<0, 0>>, <<>>)

---------------------------------------------------------------------------
(* The inputs the frame loop draws from *)

Texts == {"a", "b"}

Spacings == {0, 1}

Paddings == {1, -1}

Callbacks == {"f", "g"}

Leaves == {Empty} \cup {Text(t) : t \in Texts}

\* the members of child lists
Items == {Text("a"), Button(Text("a"), "f")}

Tuples == UNION {[1..n -> Items] : n \in 1..MaxKids}

Lists == {UnitList} \cup {Tuple(es) : es \in Tuples}
         \cup {Text("a"), Chain(Text("a"), Tuple(<<Text("b")>>))}

ColLists ==
    {UnitList, Tuple(<<Button(Text("a"), "f")>>),
     Tuple(<<Button(Text("a"), "f"), Button(Text("a"), "g")>>),
     Tuple(<<Text("a"), Scrollable(Text("b"))>>)}

Templates ==
    Leaves
    \cup {Padding(p, Text("a")) : p \in Paddings}
    \cup {BackgroundColor(col, Text("a")) : col \in {"red", "blue"}}
    \cup {Button(Text("a"), f) : f \in Callbacks}
    \cup {Scrollable(Text(t)) : t \in Texts}
    \cup {Row(sp, l) : sp \in Spacings, l \in Lists}
    \cup {Col(0, l) : l \in ColLists}

\* window sizes (`context.window().get_inner_size()`)
Windows == {Bounds(20, 2)}

\* pointer positions
Points == {<<0, 1>>, <<0, 2>>, <<6, 6>>, <<13, 1>>, <<1, 13>>, <<50, 50>>}

Inputs ==
    {MouseDown(b) : b \in {"Left", "Right"}}
    \cup {MouseUp(b) : b \in {"Left", "Right"}}
    \cup {Scroll(0, dy) : dy \in {-1, 1}}
    \cup {KeyDown("A"), KeyUp("A"), Char("x")}

\* the pointer position that accompanies an input other than a move (only a
\* move reads it)
InputPoints(i) == IF i.kind = "MouseUp" THEN {<<0, 1>>, <<50, 50>>} ELSE {<<0, 1>>}

\* every node of a tree, as the path of child indices leading to it
RECURSIVE Paths(_)
Paths(node) ==
    {<<>>} \cup UNION {{<<i>> \o p : p \in Paths(node.children[i])} :
                       i \in 1..Len(node.children)}

RECURSIVE At(_, _)
At(node, path) ==
    IF path = <<>> THEN node ELSE At(node.children[Head(path)], Tail(path))

\* the scroll deltas pending in the channels of a tree stay within MaxQueue
QueuesBelow(node, n) ==
    \A p \in Paths(node) :
        At(node, p).state.type = "ScrollState" => Len(At(node, p).state.rx) < n

---------------------------------------------------------------------------
(* The frame loop of backends/glutin.rs: apply the template, then route the *)
(* inputs the window produced.  prev, last, reached and fired record one    *)
(* operation; Forget discards the record before the next operation, so the  *)
(* recorded states are exactly the steps of the program.                    *)

ChanInit ==
    /\ queue = ReceiverNew
    /\ senders = 0
    /\ iters = <<>>
    /\ polled = <<>>
    /\ yielded = <<>>
    /\ sent = <<>>
    /\ sentAt = <<>>

NoRecord == [op |-> "none"]

Init ==
    /\ root = NodeNew
    /\ prev = NodeNew
    /\ last = NoRecord
    /\ reached = <<>>
    /\ fired = <<>>
    /\ cur = NoCursor
    /\ frame = 0
    /\ gone = {}
    /\ ChanInit

\* template().apply(&mut root, Bounds::new(size.width, size.height))
Apply ==
    \E e \in Templates, b \in Windows :
        /\ last = NoRecord
        /\ root' = apply(e, root, b, 0)
        /\ prev' = root
        /\ last' = [op |-> "apply", elem |-> e, bounds |-> b]
        /\ reached' = <<>>
        /\ fired' = <<>>
        /\ UNCHANGED <<frame, gone>>
        /\ UNCHANGED <<cur, chanVars>>

Route(i, mouse) ==
    LET r == input(root, i, mouse)
    IN  /\ last = NoRecord
        /\ root' = r.node
        /\ prev' = root
        /\ last' = [op |-> "input", input |-> i, mouse |-> mouse]
        /\ reached' = r.reached
        /\ fired' = r.fired
        /\ UNCHANGED <<frame, gone>>
        /\ UNCHANGED <<cur, chanVars>>

\* root.input(input, &input_state) for a pointer move
Move == \E mouse \in Points : Route(MouseMove, mouse)

\* root.input(input, &input_state) for the other inputs
Input ==
    \E i \in Inputs :
        \E mouse \in InputPoints(i) :
            /\ i.kind = "Scroll" => QueuesBelow(root, MaxQueue)
            /\ Route(i, mouse)

Forget ==
    /\ last # NoRecord
    /\ prev' = NodeNew
    /\ last' = NoRecord
    /\ reached' = <<>>
    /\ fired' = <<>>
    /\ UNCHANGED <<root, frame, gone>>
    /\ UNCHANGED <<cur, chanVars>>

Next == Apply \/ Move \/ Input \/ Forget

Spec == Init /\ [][Next]_vars

---------------------------------------------------------------------------
(* What a template declares *)

\* the elements an element list hands to cursor.add(), in order
RECURSIVE Flatten(_)
Flatten(l) ==
    CASE l.type = "()" -> <<>>
      [] l.type = "tuple" -> l.elems
      [] l.type = "chain" -> Flatten(l.a) \o Flatten(l.b)
      [] OTHER -> <<l>>

\* the child elements an element applies to successive slots of `node`
\* (`node` as it is after the element's tag call)
ChildElems(e, node) ==
    CASE e.type \in {"Empty", "Text"} -> <<>>
      [] e.type \in {"Padding", "BackgroundColor", "Scrollable"} -> <<e.child>>
      [] e.type = "Button" ->
            <<BackgroundColor(button_color(node), Padding(ButtonPadding, e.child))>>
      [] e.type \in {"Row", "Col"} -> Flatten(e.children)

Slots(e) == Len(ChildElems(e, NodeNew))

Applied == last.op = "apply"

Routed(k) == last.op = "input" /\ last.input.kind = k

---------------------------------------------------------------------------
(* C1 - identity change *)

\* C1: when an element is applied to a node last written by a different
\* element type, nothing of the old node survives: the result is what the
\* element builds on a fresh empty node (children, typed state, shape,
\* handlers, hover and dragging all discarded).  Stated for every built-in
\* type, Empty included.
C1_IdentityChange ==
    (Applied /\ prev.tag \notin {"Node", last.elem.type})
        => [root EXCEPT !.tag = "-"]
             = [apply(last.elem, NodeNew, last.bounds, 0) EXCEPT !.tag = "-"]

---------------------------------------------------------------------------
(* C2 - identity stability *)

\* what a node's typed state is carried over to: the same type, and the same
\* scroll offset when no scroll delta is pending
StateCarried(old, new) ==
    /\ new.state.type = old.state.type
    /\ (old.state.type = "ScrollState" /\ old.state.rx = <<>>)
           => new.state.offset = old.state.offset

RECURSIVE Carried(_, _, _)
Carried(e, old, new) ==
    old.tag = e.type =>
        /\ new.tag = old.tag
        /\ new.hover = old.hover
        /\ new.dragging = old.dragging
        /\ StateCarried(old, new)
        /\ LET kids == ChildElems(e, old)
           IN  /\ Len(new.children) = Len(kids)
               /\ \A i \in 1..Len(kids) :
                      i <= Len(old.children)
                          => Carried(kids[i], old.children[i], new.children[i])

\* C2: applying an element to a node whose tag is that element's type does
\* not reset the node: its typed state, hover and dragging are carried over,
\* and so are, recursively, the retained children at the positions declared
\* again by a child element of their own type.
C2_IdentityStable == Applied => Carried(last.elem, prev, root)

\* a hovered Scrollable scrolled to offset 1 is applied again with another
\* child and keeps its offset and its hover flag
C2_Witness ==
    /\ Applied
    /\ last.elem = Scrollable(Text("a"))
    /\ prev.tag = "Scrollable"
    /\ prev.children[1].size = measure("b")
    /\ prev.hover /\ prev.state.offset = 1
    /\ root.hover /\ root.state.offset = 1
    /\ root.children[1].size = measure("a")

---------------------------------------------------------------------------
(* C3 - children count *)

\* C3: after any element is applied to any node, the node has exactly as many
\* children as the element declared (0 for Text and Empty, 1 for Padding,
\* BackgroundColor, Button and Scrollable, the list length for Row and Col).
C3_ChildrenCount == Applied => Len(root.children) = Slots(last.elem)

---------------------------------------------------------------------------
(* C4 - pruned handlers.  SpecPrune stamps every closure with the frame    *)
(* that installed it, so that a closure dropped with its node and a closure *)
(* installed later at the same place are different instances; `gone`        *)
(* collects the instances that sat on children no longer declared.          *)

HandlerSlots == DOMAIN DefaultHandlers

\* the closure instances installed in a subtree whose root is at `path`
Installed(node, path) ==
    {[at |-> path \o p, handler |-> At(node, p).handlers[sl]] :
        p \in Paths(node), sl \in HandlerSlots}

InstalledLive(node, path) ==
    {x \in Installed(node, path) : x.handler.kind # "None"}

\* the closure instances on the children of `node` (and their descendants)
\* that element e does not declare again: with N children retained and
\* M < N declared, those of children M+1..N, at every level of the tree
RECURSIVE Undeclared(_, _, _)
Undeclared(e, node, path) ==
    LET kids == ChildElems(e, node)
        N == Len(node.children)
        M == Len(kids)
    IN  UNION {InstalledLive(node.children[i], Append(path, i)) : i \in (M + 1)..N}
        \cup UNION {Undeclared(kids[i], node.children[i], Append(path, i)) :
                    i \in 1..FMin(M, N)}

\* the frame loop, stamping the closures of frame k with k
ApplyStamped ==
    \E e \in Templates, b \in Windows :
        /\ last = NoRecord
        /\ frame < MaxFrames
        /\ root' = apply(e, root, b, frame + 1)
        /\ prev' = root
        /\ last' = [op |-> "apply", elem |-> e, bounds |-> b]
        /\ reached' = <<>>
        /\ fired' = <<>>
        /\ frame' = frame + 1
        /\ gone' = gone \cup Undeclared(e, root, <<>>)
        /\ UNCHANGED <<cur, chanVars>>

NextPrune == ApplyStamped \/ Move \/ Input \/ Forget

SpecPrune == Init /\ [][NextPrune]_vars

\* C4: once a frame declares fewer children than the frame before, no
\* closure that was installed on one of the children not declared again (or
\* on a descendant of one) is invoked by any later input.
C4_PrunedSilent ==
    \A k \in 1..Len(fired) :
        [at |-> fired[k].at, handler |-> fired[k].handler] \notin gone

---------------------------------------------------------------------------
(* Reading a tree, for the claims about input *)

Member(x, seq) == \E k \in 1..Len(seq) : seq[k] = x

Prefixes(p) == {SubSeq(p, 1, n) : n \in 0..Len(p)}

Ancestors(p) == Prefixes(p) \ {p}

\* the top left corner of the node at `path`, in window coordinates
RECURSIVE Origin(_, _)
Origin(node, path) ==
    IF path = <<>> THEN node.offset
    ELSE LET o == Origin(node.children[Head(path)], Tail(path))
         IN  <<node.offset[1] + o[1], node.offset[2] + o[2]>>

\* the pointer is inside the half-open rectangle of the node at `path`
Inside(tree, path, mouse) ==
    LET o == Origin(tree, path)
        sz == At(tree, path).size
    IN  /\ o[1] <= mouse[1] /\ mouse[1] < o[1] + sz[1]
        /\ o[2] <= mouse[2] /\ mouse[2] < o[2] + sz[2]

---------------------------------------------------------------------------
(* C5 - capture *)

\* C5: a MouseDown sets dragging on every node that is hovered together with
\* all its ancestors; while a node is dragging every MouseMove is dispatched
\* to it wherever the pointer is (it passes its gate, its children get the
\* move, and its hover becomes the hit test of the new position - false
\* outside its rectangle) and leaves it dragging; a MouseUp at any position
\* is dispatched to it and clears its dragging flag.
C5_Capture ==
    \A p \in Paths(prev) :
        LET A == At(prev, p) IN
        /\ (Routed("MouseDown") /\ \A q \in Prefixes(p) : At(prev, q).hover)
               => (At(root, p).dragging /\ Member(p, reached))
        /\ (Routed("MouseMove") /\ A.dragging)
               => /\ Member(p, reached)
                  /\ At(root, p).dragging
                  /\ At(root, p).hover = Inside(prev, p, last.mouse)
                  /\ \A i \in 1..Len(A.children) :
                         At(root, Append(p, i)).hover
                             = Inside(prev, Append(p, i), last.mouse)
        /\ (Routed("MouseUp") /\ A.dragging)
               => (Member(p, reached) /\ ~At(root, p).dragging)

\* a nested node that is dragging and hovered gets a move far outside its
\* rectangle: it is reached, loses hover and keeps dragging
C5_Witness ==
    /\ Routed("MouseMove")
    /\ \E p \in Paths(prev) :
          /\ Len(p) >= 2
          /\ At(prev, p).dragging /\ At(prev, p).hover
          /\ ~Inside(prev, p, last.mouse)
          /\ Member(p, reached)
          /\ ~At(root, p).hover /\ At(root, p).dragging

---------------------------------------------------------------------------
(* C6 - dragging transitions *)

\* dragging rises only in a MouseDown on a node whose hover flag is set
RisesOnlyOnPress ==
    \A p \in Paths(root) :
        (/\ last # NoRecord
         /\ At(root, p).dragging
         /\ (p \notin Paths(prev) \/ ~At(prev, p).dragging))
            => (Routed("MouseDown") /\ p \in Paths(prev) /\ At(prev, p).hover)

\* the node at `path` is retained by applying e to `node`: every node on the
\* way is patched in place (its tag is the type of the element applied to
\* it) and declared again, or lies below an Empty, which touches nothing
RECURSIVE Retained(_, _, _)
Retained(e, node, path) ==
    \/ e.type = "Empty"
    \/ /\ node.tag = e.type
       /\ \/ path = <<>>
          \/ /\ Head(path) <= Len(ChildElems(e, node))
             /\ Retained(ChildElems(e, node)[Head(path)],
                         node.children[Head(path)], Tail(path))

\* C6 as stated: dragging rises only in a MouseDown on a hovered node, and
\* once set it stays set over every operation, apply included, other than
\* a MouseUp.
C6_Original ==
    /\ RisesOnlyOnPress
    /\ \A p \in Paths(prev) :
           (At(prev, p).dragging /\ last # NoRecord /\ ~Routed("MouseUp"))
               => (p \in Paths(root) /\ At(root, p).dragging)

\* C6 (amended): dragging rises only in a MouseDown on a hovered node; once
\* set it stays set, whatever happens to hover, over every input other than
\* a MouseUp and over every apply that retains the node (patches it and its
\* ancestors in place and declares it again).
C6_DragTransitions ==
    /\ RisesOnlyOnPress
    /\ \A p \in Paths(prev) :
           At(prev, p).dragging =>
               /\ (last.op = "input" /\ ~Routed("MouseUp"))
                      => At(root, p).dragging
               /\ (Applied /\ Retained(last.elem, prev, p))
                      => (p \in Paths(root) /\ At(root, p).dragging)

\* a nested node that is dragging but no longer hovered survives an apply
C6_Witness ==
    /\ Applied
    /\ \E p \in Paths(prev) :
          /\ Len(p) >= 2
          /\ At(prev, p).dragging /\ ~At(prev, p).hover
          /\ Retained(last.elem, prev, p)
          /\ At(root, p).dragging

---------------------------------------------------------------------------
(* C7 - hover after a move *)

\* C7: after every MouseMove routed through the root, the hover flag of
\* every node of the tree equals the hit test of the pointer against the
\* node's absolute rectangle.
C7_HoverFresh ==
    Routed("MouseMove")
        => \A p \in Paths(root) : At(root, p).hover = Inside(root, p, last.mouse)

---------------------------------------------------------------------------
(* C8 - release ends every drag *)

\* C8: immediately after a MouseUp routed through the root, no node of the
\* tree is dragging, wherever the pointer is at release.
C8_ReleaseEndsDrag ==
    Routed("MouseUp") => \A p \in Paths(root) : ~At(root, p).dragging

\* a release far outside ends the drag of a nested node that was dragging
\* and not hovered
C8_Witness ==
    /\ Routed("MouseUp")
    /\ last.mouse = <<50, 50>>
    /\ \E p \in Paths(prev) :
          /\ Len(p) >= 2
          /\ At(prev, p).dragging /\ ~At(prev, p).hover
          /\ ~At(root, p).dragging

---------------------------------------------------------------------------
(* The event channel on its own: one Receiver, its Sender handles, and the *)
(* iterators its polls returned.  A value is sent as the token <<n, v>>,    *)
(* n its place in the order of all sends, so that every sent value is       *)
(* distinguishable.                                                         *)

Values == {"x", "y"}

TreeIdle ==
    /\ root = NodeNew
    /\ prev = NodeNew
    /\ last = NoRecord
    /\ reached = <<>>
    /\ fired = <<>>
    /\ cur = NoCursor
    /\ frame = 0
    /\ gone = {}

InitChan == TreeIdle /\ ChanInit

\* Receiver::sender
MakeSender ==
    /\ senders < MaxSenders
    /\ senders' = senders + 1
    /\ UNCHANGED <<queue, iters, polled, yielded, sent, sentAt>>
    /\ UNCHANGED treeVars

\* #[derive(Clone)] on Sender: another handle to the same queue
CloneSender ==
    /\ senders >= 1
    /\ senders < MaxSenders
    /\ senders' = senders + 1
    /\ UNCHANGED <<queue, iters, polled, yielded, sent, sentAt>>
    /\ UNCHANGED treeVars

\* Sender::send through handle s
Send ==
    \E s \in 1..senders, v \in Values :
        /\ Len(sent) < MaxSends
        /\ queue' = send(queue, <<Len(sent) + 1, v>>)
        /\ sent' = Append(sent, <<Len(sent) + 1, v>>)
        /\ sentAt' = Append(sentAt, [by |-> s, polls |-> Len(polled),
                                     live |-> {k \in 1..Len(iters) : iters[k] # <<>>}])
        /\ UNCHANGED <<senders, iters, polled, yielded>>
        /\ UNCHANGED treeVars

\* Receiver::poll
Poll ==
    /\ Len(polled) < MaxPolls
    /\ LET r == poll(queue)
       IN  /\ queue' = r.cell
           /\ iters' = Append(iters, r.iter)
           /\ polled' = Append(polled, r.iter)
           /\ yielded' = Append(yielded, <<>>)
    /\ UNCHANGED <<senders, sent, sentAt>>
    /\ UNCHANGED treeVars

\* Iterator::next on the iterator the k-th poll returned
IterNext ==
    \E k \in 1..Len(iters) :
        /\ iters[k] # <<>>
        /\ yielded' = [yielded EXCEPT ![k] = Append(@, Head(iters[k]))]
        /\ iters' = [iters EXCEPT ![k] = Tail(@)]
        /\ UNCHANGED <<queue, senders, polled, sent, sentAt>>
        /\ UNCHANGED treeVars

NextChan == MakeSender \/ CloneSender \/ Send \/ Poll \/ IterNext

SpecChan == InitChan /\ [][NextChan]_vars

\* the values sent after `n` polls had been issued, in send order
RECURSIVE SentAfter(_, _)
SentAfter(n, k) ==
    IF k > Len(sent) THEN <<>>
    ELSE (IF sentAt[k].polls = n THEN <<sent[k]>> ELSE <<>>) \o SentAfter(n, k + 1)

RECURSIVE Concat(_)
Concat(seqs) == IF seqs = <<>> THEN <<>> ELSE Head(seqs) \o Concat(Tail(seqs))

\* C9: whatever the interleaving of sends (through any handle) and polls,
\* each poll returns exactly the values sent since the poll before it, in
\* send order; every value sent is in exactly one poll's result or still
\* queued; a poll with no send since the poll before it returns nothing.
C9_ChannelOrder ==
    /\ \A k \in 1..Len(polled) : polled[k] = SentAfter(k - 1, 1)
    /\ Concat(polled) \o queue = sent

\* three values from two handles are drained by one poll in send order, and
\* the poll right after it returns nothing
C9_Witness ==
    /\ Len(polled) = 2
    /\ Len(polled[1]) = 3
    /\ sentAt[1].by # sentAt[2].by
    /\ polled[2] = <<>>

\* C10: a value sent while an iterator returned by poll still has items to
\* yield is not among that iterator's items, and the iterator goes on to
\* yield exactly what poll handed it; the value is not lost: it is in the
\* next poll's result, in send order, or still queued for it.
C10_SendWhileDraining ==
    /\ \A k \in 1..Len(polled) : yielded[k] \o iters[k] = polled[k]
    /\ \A i \in 1..Len(sent) :
           sentAt[i].live # {} =>
               /\ \A k \in sentAt[i].live : ~Member(sent[i], polled[k])
               /\ IF Len(polled) > sentAt[i].polls
                  THEN Member(sent[i], polled[sentAt[i].polls + 1])
                  ELSE Member(sent[i], queue)
    /\ \A k \in 1..Len(polled) :
           \A a, b \in 1..Len(polled[k]) : a < b => polled[k][a][1] < polled[k][b][1]

\* a value is sent while the first poll's iterator is half consumed; the
\* iterator then finishes with its own two items and the second poll
\* returns the value
C10_Witness ==
    /\ Len(polled) = 2
    /\ Len(polled[1]) = 2
    /\ iters[1] = <<>> /\ yielded[1] = polled[1]
    /\ Len(sent) = 3
    /\ sentAt[3].live = {1}
    /\ polled[2] = <<sent[3]>>

---------------------------------------------------------------------------
(* C15 - button click *)

\* the number of times the on_click callback of the Button at `path` ran
\* during the last input
Clicks(path) ==
    Cardinality({k \in 1..Len(fired) :
                    fired[k].slot = "on_click" /\ fired[k].at = path})

\* a Button node that is hovered, was pressed (dragging) and has the pointer
\* over it
PressedButton(tree, path, mouse) ==
    /\ At(tree, path).tag = "Button"
    /\ At(tree, path).hover
    /\ At(tree, path).dragging
    /\ Inside(tree, path, mouse)

\* C15: a press does not click; a left release over a hovered Button that
\* was pressed while hovered runs that Button's on_click exactly once.
C15_ClickOnce ==
    /\ Routed("MouseDown") => \A k \in 1..Len(fired) : fired[k].slot # "on_click"
    /\ (Routed("MouseUp") /\ last.input.button = "Left")
           => \A p \in Paths(prev) :
                  PressedButton(prev, p, last.mouse) => Clicks(p) = 1

\* a Button nested in a Row is released with the left button after a press,
\* and its callback has run once
C15_Witness ==
    /\ Routed("MouseUp") /\ last.input.button = "Left"
    /\ prev.tag = "Row" /\ Len(prev.children) >= 1
    /\ PressedButton(prev, <<1>>, last.mouse)
    /\ Clicks(<<1>>) = 1
    /\ ~At(root, <<1>>).dragging

---------------------------------------------------------------------------
(* Layout.  SpecLayout runs the frame loop over templates whose spacing    *)
(* and padding may be negative and whose child lists hold same-typed       *)
(* neighbours, and adds the frame that applies the previous frame's        *)
(* template again.                                                         *)

LayoutSpacings == {-5, 1}

\* (the templates also hold a Padding around a Scrollable, whose scroll range
\* shows the height it was constrained to)

\* the items the child lists are cut from: two Scrollables, a Text and a
\* Padding whose padding is negative
LayoutItems ==
    <<Scrollable(Text("b")), Scrollable(Text("a")), Text("a"),
      Padding(-2, Text("a"))>>

\* the list of n consecutive items starting at item `start`
LayoutList(start, n) ==
    Tuple([i \in 1..n |-> LayoutItems[((start + i - 2) % Len(LayoutItems)) + 1]])

LayoutLists ==
    {UnitList} \cup {LayoutList(start, n) : start \in 1..Len(LayoutItems),
                                            n \in 1..MaxKids}

LayoutTemplates ==
    {Empty, Text("a"), Padding(-2, Text("a")), Scrollable(Text("b")),
     Padding(1, Scrollable(Text("b")))}
    \cup {Row(sp, l) : sp \in LayoutSpacings, l \in LayoutLists}
    \cup {Col(sp, l) : sp \in LayoutSpacings, l \in LayoutLists}

LayoutPoints == {<<0, 1>>, <<1, 1>>, <<50, 50>>}

\* template().apply(&mut root, ..) of a frame
ApplyLayout ==
    \E e \in LayoutTemplates, b \in Windows :
        /\ last = NoRecord
        /\ root' = apply(e, root, b, 0)
        /\ prev' = root
        /\ last' = [op |-> "apply", elem |-> e, bounds |-> b]
        /\ reached' = <<>>
        /\ fired' = <<>>
        /\ UNCHANGED <<frame, gone>>
        /\ UNCHANGED <<cur, chanVars>>

\* the next frame, when the template and the window are unchanged and the
\* window produced no input in between
ApplyAgain ==
    /\ last.op = "apply"
    /\ root' = apply(last.elem, root, last.bounds, 0)
    /\ prev' = root
    /\ last' = [op |-> "reapply", elem |-> last.elem, bounds |-> last.bounds]
    /\ reached' = <<>>
    /\ fired' = <<>>
    /\ UNCHANGED <<frame, gone>>
    /\ UNCHANGED <<cur, chanVars>>

MoveLayout == \E mouse \in LayoutPoints : Route(MouseMove, mouse)

\* the wheel turned one notch towards the end of the content
ScrollLayout ==
    /\ QueuesBelow(root, MaxQueue)
    /\ Route(Scroll(0, -1), <<0, 1>>)

NextLayout == ApplyLayout \/ ApplyAgain \/ MoveLayout \/ ScrollLayout \/ Forget

SpecLayout == Init /\ [][NextLayout]_vars

---------------------------------------------------------------------------
(* C11 - Row layout *)

\* w_1 + ... + w_n of the first n children
RECURSIVE SumWidths(_, _)
SumWidths(children, n) ==
    IF n = 0 THEN 0 ELSE SumWidths(children, n - 1) + children[n].size[1]

\* the largest height among the children (at least one child)
MaxHeight(children) ==
    CHOOSE h \in {children[i].size[2] : i \in 1..Len(children)} :
        \A i \in 1..Len(children) : children[i].size[2] <= h

AtLeastZero(x) == IF x < 0 THEN 0 ELSE x

\* a Row with at least one child has just been applied to the root
RowApplied == Applied /\ last.elem.type = "Row" /\ Len(root.children) >= 1

\* child i of the Row sits at (sum_{j<i} (w_j + s), 0)
RowOffsets ==
    \A i \in 1..Len(root.children) :
        root.children[i].offset
            = <<SumWidths(root.children, i - 1) + (i - 1) * last.elem.spacing, 0>>

\* the width the children and the gaps between them add up to
RowExtent ==
    SumWidths(root.children, Len(root.children))
        + (Len(root.children) - 1) * last.elem.spacing

\* C11 as stated: child i of a Row is at (sum_{j<i} (w_j + s), 0) and the
\* Row's size is (w_1 + ... + w_n + (n-1)*s, max h_i).
C11_Original ==
    RowApplied =>
        /\ RowOffsets
        /\ root.size = <<RowExtent, MaxHeight(root.children)>>

\* C11, amended: child i of a Row is at (sum_{j<i} (w_j + s), 0) and the
\* Row's size is (max(0, w_1 + ... + w_n + (n-1)*s), max(0, max h_i)).
C11_RowLayout ==
    RowApplied =>
        /\ RowOffsets
        /\ root.size = <<AtLeastZero(RowExtent),
                         AtLeastZero(MaxHeight(root.children))>>

\* a Row with spacing 1 over children of sizes 4x3 and 2x2 has size 7x3 and
\* its children at (0,0) and (5,0)
C11_Witness ==
    /\ RowApplied
    /\ last.elem.spacing = 1
    /\ Len(root.children) = 2
    /\ root.children[1].size = <<4, 3>> /\ root.children[2].size = <<2, 2>>
    /\ root.children[1].offset = <<0, 0>> /\ root.children[2].offset = <<5, 0>>
    /\ root.size = <<7, 3>>

---------------------------------------------------------------------------
(* C12 - empty container *)

\* C12: a Row applied with no children has width 0 and a Col applied with
\* no children has height 0, whatever the spacing.
C12_EmptyContainer ==
    (Applied /\ last.elem.type \in {"Row", "Col"}
             /\ Flatten(last.elem.children) = <<>>)
        => root.size[IF last.elem.type = "Row" THEN 1 ELSE 2] = 0

---------------------------------------------------------------------------
(* C13 - non-negative sizes *)

\* C13: after an apply every node of the tree has width >= 0 and height >= 0.
C13_NonNegativeSizes ==
    (Applied \/ last.op = "reapply")
        => \A p \in Paths(root) :
               At(root, p).size[1] >= 0 /\ At(root, p).size[2] >= 0

---------------------------------------------------------------------------
(* C14 - layout idempotence *)

\* the size and offset of every node of a tree
RECURSIVE Geometry(_)
Geometry(node) ==
    [size |-> node.size, offset |-> node.offset,
     children |-> [i \in 1..Len(node.children) |-> Geometry(node.children[i])]]

\* C14: a frame that applies the template of the frame before it with the
\* same window size, no input having been routed in between, leaves the
\* size and offset of every node as that frame produced them.
C14_LayoutIdempotent == last.op = "reapply" => Geometry(root) = Geometry(prev)

\* a Col whose first child is a Scrollable scrolled to offset 1 is applied
\* twice in a row and its nodes keep their sizes and offsets
C14_Witness ==
    /\ last.op = "reapply"
    /\ last.elem.type = "Col"
    /\ Len(root.children) = 2
    /\ root.children[1].tag = "Scrollable"
    /\ root.children[1].state.offset = 1
    /\ root.children[1].children[1].offset = <<0, -1>>
    /\ Geometry(root) = Geometry(prev)

---------------------------------------------------------------------------
(* C19 - positional matching *)

\* a child as its own element left it, before the parent places it
Unplaced(node) == [node EXCEPT !.offset = <<0, 0>>]

\* the node the k-th slot of a frame is reconciled against: the k-th child
\* the parent had at the end of the frame before, a new node when there is
\* none (or when the parent itself was replaced)
Matched(k) ==
    IF prev.tag = last.elem.type /\ k <= Len(prev.children)
    THEN prev.children[k] ELSE NodeNew

\* C19: the k-th child declared by a Row or Col is applied to the node that
\* was the parent's k-th child at the end of the previous frame, whichever
\* item it described; a retained child of the same type hands its typed
\* state, hover and dragging to the item now declared at its position.
C19_Positional ==
    (Applied /\ last.elem.type \in {"Row", "Col"}) =>
        LET kids == Flatten(last.elem.children)
        IN  /\ Len(root.children) = Len(kids)
            /\ \A k \in 1..Len(kids) :
                   /\ Unplaced(root.children[k])
                          = Unplaced(apply(kids[k], Matched(k),
                                           Bounds(INF, last.bounds.height), 0))
                   /\ Matched(k).tag = kids[k].type
                          => /\ root.children[k].hover = Matched(k).hover
                             /\ root.children[k].dragging = Matched(k).dragging
                             /\ root.children[k].state.type = Matched(k).state.type

\* the first of two Scrollables is scrolled to offset 1 and hovered; the
\* next frame declares only the item that was second, which takes over the
\* offset and the hover flag of the node at position 1
C19_Witness ==
    /\ Applied /\ last.elem.type = "Row"
    /\ prev.tag = "Row" /\ Len(prev.children) = 2
    /\ prev.children[1].tag = "Scrollable" /\ prev.children[2].tag = "Scrollable"
    /\ prev.children[1].children[1].size = measure("b")
    /\ prev.children[1].state.offset = 1 /\ prev.children[1].hover
    /\ prev.children[2].state.offset = 0 /\ ~prev.children[2].hover
    /\ last.elem.children = Tuple(<<Scrollable(Text("a"))>>)
    /\ root.children[1].children[1].size = measure("a")
    /\ root.children[1].state.offset = 1 /\ root.children[1].hover

---------------------------------------------------------------------------
(* The node API, as an element author uses it on the root node besides    *)
(* the frame loop.  SpecCursor opens a Cursor on the root's children, asks *)
(* it for slots one by one or through an element list, and drops it.       *)
(* SpecNode reads the typed state slot as some type, installs keyboard     *)
(* handlers and routes keyboard input.                                     *)

NodeTemplates == {Row(0, Tuple(<<Scrollable(Text("b")), Text("a")>>))}

NodeWindows == {Bounds(20, 2), Bounds(20, 3)}

NodeLists ==
    {UnitList, Text("a"),
     Tuple(<<Scrollable(Text("b"))>>),
     Tuple(<<Scrollable(Text("b")), Text("a")>>),
     Chain(Text("a"), Tuple(<<Scrollable(Text("b"))>>)),
     Chain(Chain(UnitList, Text("a")), UnitList)}

NodePoints == {<<0, 1>>, <<50, 50>>}

KeyInputs == {KeyDown("A"), KeyUp("A"), Char("x")}

\* the state types an element author asks the slot for, by their defaults
StateDefaults == {ScrollStateDefault, [type |-> "Counter", count |-> 0]}

\* a closure an element author installs for keyboard input
KeyHandler == [kind |-> "key"]

ApplyNode ==
    \E e \in NodeTemplates, b \in Windows :
        /\ last = NoRecord /\ cur = NoCursor
        /\ root' = apply(e, root, b, 0)
        /\ prev' = root
        /\ last' = [op |-> "apply", elem |-> e, bounds |-> b]
        /\ reached' = <<>>
        /\ fired' = <<>>
        /\ UNCHANGED <<cur, frame, gone>>
        /\ UNCHANGED chanVars

MoveNode == cur = NoCursor /\ Route(MouseMove, <<0, 1>>)

PressNode == cur = NoCursor /\ Route(MouseDown("Left"), <<0, 1>>)

\* one wheel notch, sent when no Scrollable has a delta pending
ScrollNode ==
    /\ cur = NoCursor
    /\ QueuesBelow(root, 1)
    /\ Route(Scroll(0, -1), <<0, 1>>)

KeyNode ==
    \E i \in KeyInputs, mouse \in NodePoints : cur = NoCursor /\ Route(i, mouse)

\* node.on_key_down(..); node.on_key_up(..); node.on_char(..)
InstallKeys ==
    /\ last = NoRecord /\ cur = NoCursor
    /\ root.handlers.on_key_down = NoHandler
    /\ root' = on_char(on_key_up(on_key_down(root, KeyHandler), KeyHandler), KeyHandler)
    /\ prev' = root
    /\ last' = [op |-> "handlers"]
    /\ UNCHANGED <<reached, fired, cur, frame, gone>>
    /\ UNCHANGED chanVars

\* node.state::<T>(default): `panic` records whether the unwrap of its last
\* line fails
StateAccess ==
    \E d \in StateDefaults :
        /\ last = NoRecord /\ cur = NoCursor
        /\ root' = state(root, d)
        /\ prev' = root
        /\ last' = [op |-> "state", default |-> d,
                    panic |-> ~downcast(state(root, d), d.type)]
        /\ UNCHANGED <<reached, fired, cur, frame, gone>>
        /\ UNCHANGED chanVars

\* node.edit_children()
EditChildren ==
    /\ last = NoRecord /\ cur = NoCursor
    /\ cur' = edit_children(root)
    /\ last' = [op |-> "edit_children"]
    /\ UNCHANGED <<root, prev, reached, fired, frame, gone>>
    /\ UNCHANGED chanVars

\* cursor.add()
Add ==
    /\ last = NoRecord /\ cur # NoCursor
    /\ cur.index < MaxSlots
    /\ cur' = add(cur)
    /\ last' = [op |-> "add", before |-> cur]
    /\ UNCHANGED <<root, prev, reached, fired, frame, gone>>
    /\ UNCHANGED chanVars

\* list.apply_all(&mut cursor, bounds)
ApplyAll ==
    \E l \in NodeLists, b \in NodeWindows :
        /\ last = NoRecord /\ cur # NoCursor
        /\ cur.index + Len(Flatten(l)) <= MaxSlots
        /\ cur' = apply_all(l, cur, b, 0)
        /\ last' = [op |-> "apply_all", list |-> l, bounds |-> b, before |-> cur]
        /\ UNCHANGED <<root, prev, reached, fired, frame, gone>>
        /\ UNCHANGED chanVars

\* the cursor goes out of scope
DropCursor ==
    /\ last = NoRecord /\ cur # NoCursor
    /\ root' = drop(cur)
    /\ cur' = NoCursor
    /\ prev' = root
    /\ last' = [op |-> "drop", before |-> cur]
    /\ UNCHANGED <<reached, fired, frame, gone>>
    /\ UNCHANGED chanVars

NextCursor ==
    \/ ApplyNode \/ MoveNode \/ ScrollNode
    \/ EditChildren \/ Add \/ ApplyAll \/ DropCursor
    \/ Forget

SpecCursor == Init /\ [][NextCursor]_vars

NextNode ==
    \/ ApplyNode \/ MoveNode \/ PressNode \/ ScrollNode \/ KeyNode
    \/ InstallKeys \/ StateAccess
    \/ Forget

SpecNode == Init /\ [][NextNode]_vars

---------------------------------------------------------------------------
(* C16 - typed state accessed as another type *)

\* C16: reading the state slot as a type other than the one stored panics
\* and leaves the stored state in place.
C16_MismatchPanics ==
    (last.op = "state" /\ prev.state.type # last.default.type)
        => last.panic /\ root.state = prev.state

---------------------------------------------------------------------------
(* C17 - Cursor::add *)

\* the node Node::new() builds, field by field
IsEmptyNode(node) ==
    /\ node.shape = [kind |-> "Empty"]
    /\ node.children = <<>>
    /\ node.size = <<0, 0>> /\ node.offset = <<0, 0>>
    /\ ~node.hover /\ ~node.dragging
    /\ \A sl \in DOMAIN node.handlers : node.handlers[sl] = [kind |-> "None"]

\* C17: a cursor's index never exceeds the number of children and the
\* assertion of add never fails; an add at the end appends a new empty node
\* and returns it, an add before the end returns the child at the index and
\* changes nothing.
C17_AddNeverFails ==
    /\ cur # NoCursor => cur.ok /\ cur.index <= Len(cur.node.children)
    /\ last.op = "add" =>
          LET before == last.before
              len == Len(before.node.children)
          IN  /\ cur.index = before.index + 1
              /\ before.index = len =>
                    /\ Len(cur.node.children) = len + 1
                    /\ SubSeq(cur.node.children, 1, len) = before.node.children
                    /\ IsEmptyNode(cur.node.children[cur.index])
              /\ before.index < len =>
                    /\ cur.node = before.node
                    /\ cur.node.children[cur.index]
                           = before.node.children[before.index + 1]

\* an add returned the retained first child, and the add after it, at the
\* end of the children, appended a new node
C17_Witness ==
    /\ last.op = "add"
    /\ last.before.index = 1 /\ Len(last.before.node.children) = 1
    /\ last.before.node.children[1].tag = "Scrollable"
    /\ cur.index = 2 /\ Len(cur.node.children) = 2
    /\ IsEmptyNode(cur.node.children[2])

---------------------------------------------------------------------------
(* C18 - element lists *)

\* the number of slots a list asks the cursor for
RECURSIVE SlotCount(_)
SlotCount(l) ==
    CASE l.type = "()" -> 0
      [] l.type = "tuple" -> Len(l.elems)
      [] l.type = "chain" -> SlotCount(l.a) + SlotCount(l.b)
      [] OTHER -> 1

\* the child a cursor's next k-th slot is: the retained one, else a new node
SlotBefore(cursor, k) ==
    IF cursor.index + k <= Len(cursor.node.children)
    THEN cursor.node.children[cursor.index + k] ELSE NodeNew

\* C18: apply_all moves the cursor by the list's slot count (0 for (), 1
\* for an element, n for an n-tuple, the sum for a Chain), applies the
\* members in order (a Chain's first list before its second) to successive
\* slots, each with the constraint apply_all was given, and touches no
\* other child.
C18_ListSlots ==
    last.op = "apply_all" =>
        LET before == last.before
            members == Flatten(last.list)
            n == SlotCount(last.list)
        IN  /\ n = Len(members)
            /\ cur.index = before.index + n
            /\ \A k \in 1..n :
                   cur.node.children[before.index + k]
                       = apply(members[k], SlotBefore(before, k), last.bounds, 0)
            /\ \A j \in 1..Len(before.node.children) :
                   (j <= before.index \/ j > before.index + n)
                       => cur.node.children[j] = before.node.children[j]
            /\ Len(cur.node.children)
                   = (IF before.index + n > Len(before.node.children)
                      THEN before.index + n ELSE Len(before.node.children))

\* Chain(Text, (Scrollable,)) is applied by a cursor over a retained Text
\* and a retained Scrollable with a pending delta: the Text takes the first
\* slot, the Scrollable the second, and the Scrollable's offset shows the
\* window height 2 the list was given
C18_Witness ==
    /\ last.op = "apply_all"
    /\ last.list = Chain(Text("a"), Tuple(<<Scrollable(Text("b"))>>))
    /\ last.bounds = Bounds(20, 2)
    /\ last.before.index = 0
    /\ Len(last.before.node.children) = 2
    /\ last.before.node.children[2].tag = "Scrollable"
    /\ last.before.node.children[2].state.offset = 0
    /\ last.before.node.children[2].state.rx = <<-1>>
    /\ cur.index = 2
    /\ cur.node.children[1].tag = "Text"
    /\ cur.node.children[2].state.offset = 1

---------------------------------------------------------------------------
(* C20 - keyboard and character input *)

KeyRouted == last.op = "input" /\ last.input.kind \in {"KeyDown", "KeyUp", "Char"}

\* C20: a KeyDown, KeyUp or Char given to Node::input reaches no child,
\* runs no handler and changes no node, wherever the pointer is.
C20_KeysNotRouted ==
    KeyRouted => /\ fired = <<>>
                 /\ reached = <<>>
                 /\ root = prev

\* a KeyDown is given to a hovered, pressed root that has a key handler
\* installed and hovered children: nothing runs, nothing changes
C20_Witness ==
    /\ KeyRouted /\ last.input.kind = "KeyDown"
    /\ prev.handlers.on_key_down # NoHandler
    /\ prev.hover /\ prev.dragging
    /\ Len(prev.children) = 2 /\ prev.children[1].hover
    /\ fired = <<>> /\ root = prev

---------------------------------------------------------------------------
(* C21 - apply against a fresh build *)

\* every node of the tree has idle interaction flags and a typed state at
\* its default: () or a ScrollState with offset 0 and nothing pending
IdleTree(node) ==
    \A p \in Paths(node) :
        /\ ~At(node, p).hover /\ ~At(node, p).dragging
        /\ At(node, p).state \in {Unit, ScrollStateDefault}

\* what an apply builds: tag, shape, size, and the children with their
\* offsets, recursively
RECURSIVE Built(_)
Built(node) ==
    [tag |-> node.tag, shape |-> node.shape, size |-> node.size,
     children |-> [i \in 1..Len(node.children) |->
                      [offset |-> node.children[i].offset,
                       built |-> Built(node.children[i])]]]

\* C21: applying an element to a retained node whose interaction flags are
\* idle and whose typed state is at its default gives the same tag, shape,
\* size, number of children and child offsets, recursively, as applying it
\* to a newly created empty node.
C21_FreshBuild ==
    (Applied /\ IdleTree(prev))
        => Built(root) = Built(apply(last.elem, NodeNew, last.bounds, 0))

---------------------------------------------------------------------------
(* C22 - event gating *)

\* the gate of the last input, on a node as it was before the input
GateOf(node, path) ==
    CASE Routed("MouseDown") -> node.hover
      [] Routed("MouseUp") -> node.hover \/ node.dragging
      [] Routed("Scroll") -> node.hover \/ node.dragging
      [] Routed("MouseMove") ->
            node.dragging \/ node.hover \/ Inside(prev, path, last.mouse)
      [] OTHER -> FALSE

\* a handler of the node at `path` ran during the last input
RanAt(path) == \E k \in 1..Len(fired) : fired[k].at = path

\* C22: a node runs its handler for an input, and forwards it to its
\* children, only if all its ancestors passed their gates and it passes its
\* own: hover for a MouseDown; hover or dragging for a MouseUp or a Scroll;
\* dragging, hovered before, or hovered by the move for a MouseMove.  A node
\* below an ancestor that failed its gate gets nothing: no handler of it
\* runs and its hover and dragging flags are unchanged.
C22_Gating ==
    last.op = "input" =>
        \A p \in Paths(prev) :
            LET passed == \A q \in Prefixes(p) : GateOf(At(prev, q), q)
                cut == \E q \in Ancestors(p) : ~GateOf(At(prev, q), q)
            IN  /\ Member(p, reached) <=> passed
                /\ RanAt(p) => passed
                /\ cut => /\ ~RanAt(p)
                          /\ At(root, p).hover = At(prev, p).hover
                          /\ At(root, p).dragging = At(prev, p).dragging

\* a Scroll arrives while the root is neither hovered nor dragging: the
\* on_scroll closure of a child Scrollable does not run, and a node below
\* the root that still carries a hover flag keeps it
C22_Witness ==
    /\ Routed("Scroll")
    /\ ~prev.hover /\ ~prev.dragging
    /\ \E p \in Paths(prev) :
          /\ Len(p) = 1
          /\ At(prev, p).handlers.on_scroll # NoHandler
          /\ ~RanAt(p) /\ ~Member(p, reached)
    /\ \E q \in Paths(prev) :
          /\ Len(q) >= 1
          /\ At(prev, q).hover /\ At(root, q).hover
          /\ ~Member(q, reached)

---------------------------------------------------------------------------
(* Pointer input.  SpecOrder runs the frame loop, render included, over a  *)
(* few templates with Buttons and a Scrollable, and lets an element author *)
(* install closures for the four pointer inputs on a Col root, so that a   *)
(* node with handlers has descendants with handlers.                       *)

OrderTemplates ==
    {Col(0, Tuple(<<Button(Text("a"), "f"), Button(Text("a"), "g")>>)),
     Col(0, Tuple(<<Text("a"), Scrollable(Text("b"))>>)),
     Button(Text("a"), "f"), Button(Text("a"), "g")}

\* over the first child; on the bottom edge of a 2x2 Text; inside the Text
\* of the Col's second Button; on the right edge of the Text of the first
\* Button and inside it; outside
OrderPoints == {<<0, 1>>, <<0, 2>>, <<6, 17>>, <<7, 5>>, <<6, 6>>, <<50, 50>>}

OrderButtons == {"Left", "Right"}

\* a closure an element author installs for pointer input
PointerHandler == [kind |-> "probe"]

ApplyOrder ==
    \E e \in OrderTemplates, b \in Windows :
        /\ last = NoRecord
        /\ root' = apply(e, root, b, 0)
        /\ prev' = root
        /\ last' = [op |-> "apply", elem |-> e, bounds |-> b]
        /\ reached' = <<>>
        /\ fired' = <<>>
        /\ UNCHANGED <<frame, gone>>
        /\ UNCHANGED <<cur, chanVars>>

\* node.on_mouse_move(..); node.on_mouse_down(..); node.on_mouse_up(..);
\* node.on_scroll(..)
InstallPointer ==
    /\ last = NoRecord
    /\ root.tag = "Col"
    /\ root.handlers.on_mouse_move = NoHandler
    /\ root' = on_scroll(on_mouse_up(on_mouse_down(on_mouse_move(root,
                   PointerHandler), PointerHandler), PointerHandler), PointerHandler)
    /\ prev' = root
    /\ last' = [op |-> "handlers"]
    /\ UNCHANGED <<reached, fired, frame, gone>>
    /\ UNCHANGED <<cur, chanVars>>

\* root.render(&mut frame), which follows the apply of the same frame
RenderOrder ==
    /\ last.op = "apply"
    /\ last' = [op |-> "render", draws |-> render(root)]
    /\ prev' = root
    /\ UNCHANGED <<root, reached, fired, frame, gone>>
    /\ UNCHANGED <<cur, chanVars>>

MoveOrder == \E mouse \in OrderPoints : Route(MouseMove, mouse)

PressOrder == \E b \in OrderButtons : Route(MouseDown(b), <<0, 1>>)

ReleaseOrder ==
    \E b \in OrderButtons :
        \E mouse \in InputPoints(MouseUp(b)) : Route(MouseUp(b), mouse)

ScrollOrder ==
    /\ QueuesBelow(root, 1)
    /\ Route(Scroll(0, -1), <<0, 1>>)

NextOrder ==
    \/ ApplyOrder \/ RenderOrder \/ InstallPointer
    \/ MoveOrder \/ PressOrder \/ ReleaseOrder \/ ScrollOrder
    \/ Forget

SpecOrder == Init /\ [][NextOrder]_vars

---------------------------------------------------------------------------
(* C23 - dispatch order *)

PointerRouted ==
    last.op = "input"
        /\ last.input.kind \in {"MouseMove", "MouseDown", "MouseUp", "Scroll"}

\* the steps of the last input, in the order the code took them
Steps == input(prev, last.input, last.mouse).log

\* the handler calls among the steps, as <<node, handler slot>>
RECURSIVE Calls(_)
Calls(log) ==
    IF log = <<>> THEN <<>>
    ELSE (IF Head(log).ev = "call" THEN <<<<Head(log).at, Head(log).slot>>>>
          ELSE <<>>) \o Calls(Tail(log))

\* q is p or a node below p
Below(q, p) == p \in Prefixes(q)

\* p and q lie under different children of one node, p's child first
ChildBefore(p, q) ==
    \E n \in 0..Len(p) :
        /\ n < Len(p) /\ n < Len(q)
        /\ SubSeq(p, 1, n) = SubSeq(q, 1, n)
        /\ p[n + 1] < q[n + 1]

\* C23: in a pointer or scroll input a node's own handler runs before any
\* handler of its descendants and before any other step below it; the
\* children of a node are visited in child order; in a MouseMove the hover
\* flag of a node is written, with the value computed for the new position,
\* after its own handler and every step of its descendants.
C23_DispatchOrder ==
    PointerRouted =>
        LET log == Steps
        IN  /\ Calls(log) = [k \in 1..Len(fired) |-> <<fired[k].at, fired[k].slot>>]
            /\ \A a, b \in 1..Len(log) :
                   /\ (/\ log[a].ev = "call"
                       /\ Below(log[b].at, log[a].at)
                       /\ log[b].at # log[a].at) => a < b
                   /\ ChildBefore(log[a].at, log[b].at) => a < b
                   /\ (/\ Routed("MouseMove")
                       /\ log[b].ev = "write"
                       /\ Below(log[a].at, log[b].at)
                       /\ a # b)
                          => /\ a < b
                             /\ log[b].flag = "hover"
                             /\ log[b].value = Inside(prev, log[b].at, last.mouse)
                             /\ At(root, log[b].at).hover = log[b].value

\* the pointer leaves a hovered root that has an on_mouse_move closure and
\* two children: the closure runs first, the children are
\* visited first to second, and the root's hover flag is cleared last
C23_Witness ==
    /\ Routed("MouseMove")
    /\ prev.handlers.on_mouse_move # NoHandler
    /\ prev.hover /\ ~root.hover
    /\ Len(prev.children) = 2
    /\ Steps[2] = [ev |-> "call", at |-> <<>>, slot |-> "on_mouse_move"]
    /\ Steps[Len(Steps)] = write_step(<<>>, "hover", FALSE)
    /\ \E a, b \in 3..(Len(Steps) - 1) :
          a < b /\ Steps[a].at = <<1>> /\ Steps[b].at = <<2>>

---------------------------------------------------------------------------
(* C24 - hit-test rectangle *)

\* the sum of the offsets of the node at `path` and of all its ancestors
RECURSIVE SumOffsets(_, _, _)
SumOffsets(tree, path, n) ==
    IF n = 0 THEN tree.offset
    ELSE LET a == SumOffsets(tree, path, n - 1)
             o == At(tree, SubSeq(path, 1, n)).offset
         IN  <<a[1] + o[1], a[2] + o[2]>>

\* the node at `path` had its hit test computed by the last move: all its
\* ancestors passed their gates
Tested(path) == \A q \in Ancestors(path) : Member(q, reached)

\* ax <= mouse_x < ax + width and ay <= mouse_y < ay + height
InRect(a, size, mouse) ==
    /\ a[1] <= mouse[1] /\ mouse[1] < a[1] + size[1]
    /\ a[2] <= mouse[2] /\ mouse[2] < a[2] + size[2]

\* the nodes with a shape to draw, in the order render visits them
RECURSIVE Shaped(_, _)
Shaped(node, path) ==
    (IF node.shape.kind = "Empty" THEN <<>> ELSE <<path>>)
    \o Concat([i \in 1..Len(node.children) |->
                  Shaped(node.children[i], Append(path, i))])

\* C24: the hover value a MouseMove computes for a node is true iff
\* ax <= mouse_x < ax + width and ay <= mouse_y < ay + height, (ax, ay) the
\* sum of the offsets of the node and all its ancestors: the right and
\* bottom edges are outside and a zero-sized node is never hovered.  Render
\* draws each node's shape at the same (ax, ay) plus the shape's position.
C24_HitRect ==
    /\ Routed("MouseMove") =>
           \A p \in Paths(prev) :
               Tested(p) =>
                   LET n == At(prev, p)
                       a == SumOffsets(prev, p, Len(p))
                   IN  /\ At(root, p).hover = InRect(a, n.size, last.mouse)
                       /\ (n.size[1] = 0 \/ n.size[2] = 0) => ~At(root, p).hover
    /\ last.op = "render" =>
           /\ Len(last.draws) = Len(Shaped(root, <<>>))
           /\ \A k \in 1..Len(last.draws) :
                  LET d == last.draws[k]
                      a == SumOffsets(root, d.node, Len(d.node))
                  IN  /\ d.node = Shaped(root, <<>>)[k]
                      /\ d.shape = At(root, d.node).shape
                      /\ d.at = <<a[1] + d.shape.position[1],
                                  a[2] + d.shape.position[2]>>

\* the pointer moves to (7, 5), the right edge of the 2x2 Text that sits at
\* (5, 5) three levels below a Button root: the Padding around it is
\* hovered, the Text is not, and render draws the Text at (5, 5)
C24_Witness ==
    /\ Routed("MouseMove") /\ last.mouse = <<7, 5>>
    /\ prev.tag = "Button"
    /\ At(prev, <<1, 1, 1>>).tag = "Text"
    /\ SumOffsets(prev, <<1, 1, 1>>, 3) = <<5, 5>>
    /\ At(prev, <<1, 1, 1>>).size = <<2, 2>>
    /\ At(root, <<1, 1>>).hover
    /\ ~At(root, <<1, 1, 1>>).hover
    /\ \E k \in 1..Len(render(root)) :
          render(root)[k].node = <<1, 1, 1>> /\ render(root)[k].at = <<5, 5>>

---------------------------------------------------------------------------
(* C25 - input does not restructure the tree *)

\* a tree without its interaction flags
RECURSIVE Unflagged(_)
Unflagged(node) ==
    [tag |-> node.tag, offset |-> node.offset, size |-> node.size,
     shape |-> node.shape, handlers |-> node.handlers, state |-> node.state,
     children |-> [i \in 1..Len(node.children) |-> Unflagged(node.children[i])]]

\* a typed state without the deltas pending in its channel
Settled(st) == IF st.type = "ScrollState" THEN [st EXCEPT !.rx = <<>>] ELSE st

\* a tree without its interaction flags and its pending deltas
RECURSIVE Structure(_)
Structure(node) ==
    [tag |-> node.tag, offset |-> node.offset, size |-> node.size,
     shape |-> node.shape, handlers |-> node.handlers,
     state |-> Settled(node.state),
     children |-> [i \in 1..Len(node.children) |-> Structure(node.children[i])]]

\* hover changes in a MouseMove only, dragging in a MouseDown or MouseUp only
FlagsByKind ==
    \A p \in Paths(prev) :
        /\ At(root, p).hover # At(prev, p).hover => Routed("MouseMove")
        /\ At(root, p).dragging # At(prev, p).dragging
               => (Routed("MouseDown") \/ Routed("MouseUp"))

\* C25 as stated: an input leaves tag, offset, size, shape, children, typed
\* state and handlers of every node unchanged, changes hover in a MouseMove
\* only and dragging in a MouseDown or MouseUp only, and a Scroll changes no
\* field of any node.
C25_Original ==
    last.op = "input" =>
        /\ Paths(root) = Paths(prev)
        /\ Unflagged(root) = Unflagged(prev)
        /\ FlagsByKind
        /\ Routed("Scroll") => root = prev

\* C25, amended: an input leaves tag, offset, size, shape, children and
\* handlers of every node unchanged, and the typed state too except for the
\* channel of a ScrollState: a Scroll that reaches a Scrollable's node
\* appends its dy to the deltas pending there (the stored offset stays).
\* Hover changes in a MouseMove only, dragging in a MouseDown or MouseUp
\* only, and a Scroll changes nothing but those pending deltas.
C25_InputFrame ==
    last.op = "input" =>
        /\ Paths(root) = Paths(prev)
        /\ Structure(root) = Structure(prev)
        /\ FlagsByKind
        /\ \A p \in Paths(prev) :
               At(prev, p).state.type = "ScrollState" =>
                   At(root, p).state.rx =
                       IF /\ Routed("Scroll") /\ Member(p, reached)
                          /\ At(prev, p).handlers.on_scroll.kind = "tx"
                       THEN Append(At(prev, p).state.rx, last.input.dy)
                       ELSE At(prev, p).state.rx

\* a Scroll reaches a hovered Scrollable scrolled to offset 1 inside a Col:
\* its dy is queued, the offset and everything else stay
C25_Witness ==
    /\ Routed("Scroll")
    /\ prev.tag = "Col" /\ Len(prev.children) = 2
    /\ prev.children[2].tag = "Scrollable"
    /\ prev.children[2].hover
    /\ prev.children[2].state.offset = 1
    /\ root.children[2].state.offset = 1
    /\ root.children[2].state.rx = Append(prev.children[2].state.rx, last.input.dy)
    /\ Structure(root) = Structure(prev)

---------------------------------------------------------------------------
(* C26 - drag implies ancestors drag *)

\* C26: in every state reached by applying elements to the root and routing
\* inputs through the root, every ancestor of a dragging node, up to the
\* root, is dragging too.
C26_DragUpward ==
    \A p \in Paths(root) :
        At(root, p).dragging => \A q \in Ancestors(p) : At(root, q).dragging

\* a Col of two pressed-on Buttons is applied again with the first Button
\* only: the Padding two levels below that Button is still dragging, and so
\* is every node above it
C26_Witness ==
    /\ Applied
    /\ prev.tag = "Col" /\ Len(prev.children) = 2
    /\ root.tag = "Col" /\ Len(root.children) = 1
    /\ root.children[1].tag = "Button"
    /\ At(root, <<1, 1, 1>>).tag = "Padding"
    /\ At(root, <<1, 1, 1>>).dragging
    /\ \A q \in Ancestors(<<1, 1, 1>>) : At(root, q).dragging

---------------------------------------------------------------------------
(* C27 - button click condition *)

\* every Button of the template just applied has, on its node, the closure
\* around the on_click that this apply was given
RECURSIVE ButtonsFresh(_, _)
ButtonsFresh(e, node) ==
    /\ e.type = "Button"
           => node.handlers.on_mouse_up = click_handler(e.on_click, 0)
    /\ LET kids == ChildElems(e, node)
       IN  \A i \in 1..Len(kids) :
               i <= Len(node.children) /\ ButtonsFresh(kids[i], node.children[i])

\* the last input got as far as the node at `path`: all its ancestors
\* passed their gates
ReachesNode(path) == \A q \in Ancestors(path) : GateOf(At(prev, q), q)

\* the on_click calls of the last input at `path`, by the callback called
ClickedAt(path) ==
    {fired[k].handler.on_click :
        k \in {j \in 1..Len(fired) :
                  fired[j].slot = "on_click" /\ fired[j].at = path}}

\* C27: every apply of a Button installs the closure around its own
\* on_click in place of the one before; that on_click runs exactly once for
\* each left MouseUp that reaches the Button's node while the node is
\* hovered or dragging, wherever the pointer is and whether or not a press
\* came before, and runs for no other mouse button and no other input.
C27_ClickCondition ==
    /\ Applied => ButtonsFresh(last.elem, root)
    /\ last.op = "input" =>
           \A p \in Paths(prev) :
               IF At(prev, p).tag = "Button"
               THEN LET n == At(prev, p)
                        due == /\ Routed("MouseUp") /\ last.input.button = "Left"
                               /\ ReachesNode(p)
                               /\ (n.hover \/ n.dragging)
                    IN  /\ Clicks(p) = (IF due THEN 1 ELSE 0)
                        /\ ClickedAt(p) \subseteq {n.handlers.on_mouse_up.on_click}
               ELSE Clicks(p) = 0

\* the second Button of a Col was pressed, the pointer left the window area
\* of the Col, and the left button is released there: the second Button's
\* callback g runs once, the first Button's f does not run
C27_Witness ==
    /\ Routed("MouseUp") /\ last.input.button = "Left"
    /\ last.mouse = <<50, 50>>
    /\ prev.tag = "Col" /\ Len(prev.children) = 2
    /\ prev.children[1].tag = "Button" /\ prev.children[2].tag = "Button"
    /\ prev.children[2].dragging /\ ~prev.children[2].hover
    /\ ~prev.children[1].dragging /\ ~prev.children[1].hover
    /\ Clicks(<<2>>) = 1 /\ ClickedAt(<<2>>) = {"g"}
    /\ Clicks(<<1>>) = 0

---------------------------------------------------------------------------
(* C28 - button colour *)

\* pressed when dragging, else hovered when hovered, else idle
ColourFor(node) ==
    CASE node.dragging -> "pressed"
      [] ~node.dragging /\ node.hover -> "hovered"
      [] OTHER -> "idle"

\* the colour of the background rectangle below a Button's node
BackgroundOf(node) == node.children[1].shape.color

\* every Button of the template just applied has a background rectangle of
\* the colour its node's flags call for
RECURSIVE ButtonsColoured(_, _)
ButtonsColoured(e, node) ==
    /\ e.type = "Button"
           => /\ Len(node.children) = 1
              /\ node.children[1].shape.kind = "Rect"
              /\ BackgroundOf(node) = ColourFor(node)
    /\ LET kids == ChildElems(e, node)
       IN  \A i \in 1..Len(kids) :
               i <= Len(node.children) /\ ButtonsColoured(kids[i], node.children[i])

\* C28: an apply gives the background rectangle of every Button it declares
\* the pressed colour if the Button's node is dragging, else the hovered
\* colour if it is hovered, else the idle colour; a Button that was pressed
\* and released while hovered gets the hovered colour.
C28_ButtonColour == Applied => ButtonsColoured(last.elem, root)

\* a Button drawn pressed in the frame before has been released with the
\* pointer still over it; this frame draws it in the hovered colour
C28_Witness ==
    /\ Applied /\ last.elem.type = "Button"
    /\ prev.tag = "Button"
    /\ BackgroundOf(prev) = "pressed"
    /\ prev.hover /\ ~prev.dragging
    /\ BackgroundOf(root) = "hovered"

---------------------------------------------------------------------------
(* C29 - Padding layout *)

\* C29: Padding(p, child) applies its child into exactly one slot with the
\* constraint (bounds.width - 2p, bounds.height - 2p), sets the child's
\* offset to (p, p) and its own size to (child width + 2p, child height + 2p).
C29_PaddingLayout ==
    (Applied /\ last.elem.type = "Padding") =>
        LET p == last.elem.padding
            b == last.bounds
        IN  /\ Len(root.children) = 1
            /\ Unplaced(root.children[1])
                   = Unplaced(apply(last.elem.child, Matched(1),
                                    Bounds(b.width - 2 * p, b.height - 2 * p), 0))
            /\ root.children[1].offset = <<p, p>>
            /\ root.size = <<root.children[1].size[1] + 2 * p,
                             root.children[1].size[2] + 2 * p>>

\* Padding(1, Scrollable) in a window of height 2, two wheel notches
\* pending: the Scrollable, 3 high, scrolls to offset 2, which the
\* constraint height 2 - 2*1 = 0 allows and the window's height 2 would not;
\* the child sits at (1, 1) and the Padding is 6x5
C29_Witness ==
    /\ Applied /\ last.elem = Padding(1, Scrollable(Text("b")))
    /\ last.bounds = Bounds(20, 2)
    /\ prev.tag = "Padding" /\ prev.children[1].tag = "Scrollable"
    /\ prev.children[1].state.rx = <<-1, -1>>
    /\ prev.children[1].state.offset = 0
    /\ root.children[1].state.offset = 2
    /\ root.children[1].offset = <<1, 1>>
    /\ root.children[1].size = <<4, 3>>
    /\ root.size = <<6, 5>>

---------------------------------------------------------------------------
(* C30 - Col layout *)

\* h_1 + ... + h_n of the first n children
RECURSIVE SumHeights(_, _)
SumHeights(children, n) ==
    IF n = 0 THEN 0 ELSE SumHeights(children, n - 1) + children[n].size[2]

\* the largest width among the children (at least one child)
MaxWidth(children) ==
    CHOOSE w \in {children[i].size[1] : i \in 1..Len(children)} :
        \A i \in 1..Len(children) : children[i].size[1] <= w

\* a Col with at least one child has just been applied to the root
ColApplied == Applied /\ last.elem.type = "Col" /\ Len(root.children) >= 1

\* child i of the Col sits at (0, sum_{j<i} (h_j + s)) and the Col's size is
\* (max child width, max(0, sum of child heights + (n-1)*s))
ColPlacement ==
    /\ \A i \in 1..Len(root.children) :
           root.children[i].offset
               = <<0, SumHeights(root.children, i - 1) + (i - 1) * last.elem.spacing>>
    /\ root.size = <<MaxWidth(root.children),
                     AtLeastZero(SumHeights(root.children, Len(root.children))
                                 + (Len(root.children) - 1) * last.elem.spacing)>>

\* C30: Col mirrors Row with the axes swapped: each child is applied with a
\* constraint unbounded along the vertical axis and equal to the parent's
\* along the horizontal axis, child i is placed at (0, sum_{j<i} (h_j + s)),
\* and the Col's size is (max child width, max(0, sum h_i + (n-1)*s)).
C30_ColMirrorsRow ==
    ColApplied =>
        LET kids == Flatten(last.elem.children)
        IN  /\ Len(root.children) = Len(kids)
            /\ \A k \in 1..Len(kids) :
                   Unplaced(root.children[k])
                       = Unplaced(apply(kids[k], Matched(k),
                                        Bounds(last.bounds.width, INF), 0))
            /\ ColPlacement

---------------------------------------------------------------------------
(* Scrolling: the frame loop over templates that hold one Scrollable, at   *)
(* the root or inside a Padding, with a window whose height changes        *)
(* between frames and a wheel that turns both ways.                        *)

ScrollTemplates ==
    {Scrollable(Text("a")), Scrollable(Text("b")),
     Padding(1, Scrollable(Text("b"))), Text("a")}

ScrollWindows == {Bounds(20, 1), Bounds(20, 3)}

\* the dy of a wheel event
ScrollDeltas == {-1, 1}

\* template().apply(&mut root, Bounds::new(size.width, size.height))
ApplyScroll ==
    \E e \in ScrollTemplates, b \in ScrollWindows :
        /\ last = NoRecord
        /\ root' = apply(e, root, b, 0)
        /\ prev' = root
        /\ last' = [op |-> "apply", elem |-> e, bounds |-> b]
        /\ reached' = <<>>
        /\ fired' = <<>>
        /\ UNCHANGED <<frame, gone>>
        /\ UNCHANGED <<cur, chanVars>>

\* root.input(Input::Scroll(dx, dy), &input_state)
WheelScroll ==
    \E dy \in ScrollDeltas :
        /\ QueuesBelow(root, MaxQueue)
        /\ Route(Scroll(0, dy), <<0, 1>>)

NextScroll == ApplyScroll \/ MoveLayout \/ WheelScroll \/ Forget

SpecScroll == Init /\ [][NextScroll]_vars

\* where the template's Scrollable sits in the tree
ScrollPath(e) == IF e.type = "Padding" THEN <<1>> ELSE <<>>

\* the height the template's Scrollable is constrained to: the window's, less
\* the padding on both sides
Viewport(e, b) ==
    IF e.type = "Padding" THEN b.height - 2 * e.padding ELSE b.height

\* a template holding a Scrollable has just been applied
ScrollApplied == Applied /\ last.elem \in ScrollTemplates \ {Text("a")}

\* the node of the Scrollable applied, and the node it was applied to
Scroller == At(root, ScrollPath(last.elem))

---------------------------------------------------------------------------
(* C31 - scroll offset in range *)

\* max(0, content_height - viewport_height)
ScrollRange(content, viewport) ==
    IF content - viewport >= 0 THEN content - viewport ELSE 0

\* C31: after every apply of a Scrollable the stored scroll offset o
\* satisfies 0 <= o <= max(0, content_height - viewport_height), and the
\* child's offset is (0, -o).
C31_OffsetInRange ==
    ScrollApplied =>
        LET o == Scroller.state.offset
        IN  /\ 0 <= o
            /\ o <= ScrollRange(Scroller.children[1].size[2],
                                Viewport(last.elem, last.bounds))
            /\ Scroller.children[1].offset = <<0, 0 - o>>

---------------------------------------------------------------------------
(* C32 - scroll deltas are deferred to the next apply *)

\* the Scrollable nodes of a tree
ScrollNodes(tree) == {p \in Paths(tree) : At(tree, p).tag = "Scrollable"}

\* a Scroll routed into `tree` is delivered to the node at p: the node and
\* every ancestor is hovered or dragging
Delivered(tree, p) ==
    \A k \in 0..Len(p) :
        LET n == At(tree, SubSeq(p, 1, k)) IN n.hover \/ n.dragging

\* clamp(x) to the range [0, range]
Clamp(x, range) == IF x < 0 THEN 0 ELSE IF x > range THEN range ELSE x

\* offset := clamp(offset - dy) for each dy, oldest first
RECURSIVE Consume(_, _, _)
Consume(offset, deltas, range) ==
    IF deltas = <<>> THEN offset
    ELSE Consume(Clamp(offset - Head(deltas), range), Tail(deltas), range)

\* the Scrollable just applied was applied to the node of a Scrollable that
\* the previous frame left there
ScrollReapplied ==
    /\ ScrollApplied
    /\ Retained(last.elem, prev, ScrollPath(last.elem))
    /\ At(prev, ScrollPath(last.elem)).tag = "Scrollable"

\* C32: a Scroll delivered to a Scrollable's node (hovered or dragging) changes
\* neither the stored offset nor the child's offset at input time, it only
\* joins the deltas pending for the node, behind those delivered before it;
\* the next apply of the Scrollable consumes the pending deltas once each,
\* oldest first, as offset := clamp(offset - dy) per value, and leaves none
\* pending; an apply with none pending leaves the offset unchanged.
C32_DeferredScroll ==
    /\ Routed("Scroll") =>
           \A p \in ScrollNodes(prev) :
               LET old == At(prev, p)
                   new == At(root, p)
               IN  /\ new.state.offset = old.state.offset
                   /\ new.children[1].offset = old.children[1].offset
                   /\ new.state.rx = IF Delivered(prev, p)
                                     THEN Append(old.state.rx, last.input.dy)
                                     ELSE old.state.rx
    /\ ScrollReapplied =>
           LET old == At(prev, ScrollPath(last.elem))
               range == ScrollRange(Scroller.children[1].size[2],
                                    Viewport(last.elem, last.bounds))
           IN  /\ Scroller.state.offset
                      = Consume(old.state.offset, old.state.rx, range)
               /\ Scroller.state.rx = <<>>
               /\ Scroller.children[1].offset = <<0, 0 - Scroller.state.offset>>
               /\ old.state.rx = <<>> =>
                      Scroller.state.offset = old.state.offset

\* two deltas delivered in the order 1, -1 to a Scrollable at offset 0 are
\* consumed by the next apply, which ends at offset 1 (newest first it would
\* end at 0)
C32_Witness ==
    /\ ScrollReapplied
    /\ At(prev, ScrollPath(last.elem)).state.offset = 0
    /\ At(prev, ScrollPath(last.elem)).state.rx = <<1, -1>>
    /\ Scroller.state.offset = 1
    /\ Scroller.state.rx = <<>>

===========================================================================
